---------------------------- MODULE Spec2Model ----------------------------
(***************************************************************************)
(* A model of the DLPC350 USB HID control library (src/dlpc350.py) and of  *)
(* its dry-run transport (src/fakehid.py).                                 *)
(*                                                                         *)
(* One DLPC350 object (a session) is modelled.  Its program state is the   *)
(* sequence counter seqN, the connected flag, the status dictionary, the   *)
(* dry-run flag and the attributes that some methods create lazily         *)
(* (exposureTime, framePeriod, DisplayMode).  The debug flag only selects  *)
(* printing and is left out.  The two polling loops (pollForStatusOK and   *)
(* validateSequence) run one loop iteration per step, with their local     *)
(* variables k, poll_status, timeout and d; every other method is one      *)
(* step.  The transport is the environment: each read returns bytes the    *)
(* device chooses, which the actions draw from small sets.                 *)
(*                                                                         *)
(* The remaining variables observe the run: call and ret are the method    *)
(* invoked last and its outcome, io is the list of transport calls made by *)
(* the last step, nWrites and nReads count the transport calls of the      *)
(* current method invocation, vlog lists the validation bytes read by the  *)
(* current validateSequence, beat changes at every iteration of its loop   *)
(* (an iteration that reads the same byte again leaves everything else as  *)
(* it was), seq0 is the counter value the session started with, acks       *)
(* counts the sequence-tracked packets built and opCount the method        *)
(* invocations.  opened tells whether connectDLP has called the            *)
(* transport's open and whether an open has succeeded, closed whether      *)
(* __del__ has called its close.  thr is the state of two threads that     *)
(* share the session, when it is shared.                                   *)
(***************************************************************************)
EXTENDS Integers, Sequences, FiniteSets, TLC

VARIABLES seqN, connected, status, dryrun, exposureTime, framePeriod,
          DisplayMode, pc, k, poll_status, timeout, d,
          call, ret, io, nWrites, nReads, vlog, beat, seq0, acks, opCount,
          opened, closed, thr

\* the connected flag and what became of the transport's open
link == <<connected, opened>>
\* what no method called by a single caller changes: the dry-run flag, the
\* closing of the transport (__del__ alone closes it) and the threads
still == <<dryrun, closed, thr>>

prog == <<seqN, link, status, still, exposureTime, framePeriod,
          DisplayMode>>
locals == <<pc, k, poll_status, timeout, d>>
obs == <<call, ret, io, nWrites, nReads, vlog, beat, seq0, acks, opCount>>
vars == <<prog, locals, obs>>

---------------------------------------------------------------------------
(* Bounds of the model.                                                    *)

\* Method invocations made on one session.
MaxOps == 2
\* Transport calls counted per method invocation; the counters stay at this
\* value once they reach it.
MaxCount == 13
\* Validation bytes recorded per validateSequence; later ones are not
\* recorded.
MaxPolls == 4
\* Length of the longest payload handed to fillPatternData.
LongLen == 255

---------------------------------------------------------------------------
(* Integer helpers: Python's shifts and masks on the values used here.     *)

\* n >> s
Shr(n, s) == n \div (2 ^ s)
\* n << s
Shl(n, s) == n * (2 ^ s)
\* n & (2^bits - 1); Python's & on a negative int yields the residue
Mask(n, bits) == n % (2 ^ bits)

\* a | b for a, b >= 0
RECURSIVE BitOr(_, _)
BitOr(a, b) ==
    IF a = 0 THEN b
    ELSE IF b = 0 THEN a
    ELSE (IF (a % 2 = 1) \/ (b % 2 = 1) THEN 1 ELSE 0)
         + 2 * BitOr(a \div 2, b \div 2)

Bytes == 0..255

---------------------------------------------------------------------------
(* Outcomes of a method and transport events.                              *)

\* an integer returned, a list returned, None returned, an exception raised,
\* and the outcome of a method that has not returned yet
Return(v) == [kind |-> "return", val |-> v, list |-> <<>>, exc |-> ""]
ReturnList(l) == [kind |-> "list", val |-> 0, list |-> l, exc |-> ""]
ReturnNone == [kind |-> "none", val |-> 0, list |-> <<>>, exc |-> ""]
Raise(e) == [kind |-> "raise", val |-> 0, list |-> <<>>, exc |-> e]
Running == [kind |-> "running", val |-> 0, list |-> <<>>, exc |-> ""]

\* the arguments of a buildPacket call
Built(cmd2, cmd3, data, readonly, reply, seq) ==
    [cmd2 |-> cmd2, cmd3 |-> cmd3, data |-> data, readonly |-> readonly,
     reply |-> reply, seq |-> seq]

\* dlp_hid.write(pkt); built records the buildPacket call that made pkt
W(pkt, built) == [dir |-> "w", bytes |-> pkt, len |-> Len(pkt),
                  built |-> built, failed |-> 0]
\* dlp_hid.read(n) returning data
R(n, data) == [dir |-> "r", bytes |-> data, len |-> n,
               built |-> Built(0, 0, <<>>, 0, 0, 0), failed |-> 0]
\* dlp_hid.open(...); failed = 1 when it raised IOError
O(failed) == [dir |-> "o", bytes |-> <<>>, len |-> 0,
              built |-> Built(0, 0, <<>>, 0, 0, 0), failed |-> failed]
\* dlp_hid.close()
Closing == [dir |-> "c", bytes |-> <<>>, len |-> 0,
            built |-> Built(0, 0, <<>>, 0, 0, 0), failed |-> 0]

Writes(log) == SelectSeq(log, LAMBDA e : e.dir = "w")
Reads(log) == SelectSeq(log, LAMBDA e : e.dir = "r")

\* The result of running a command from counter value n: the transport
\* calls it made, the counter it leaves and what it returned.
Result(log, n, r) == [io |-> log, seqN |-> n, ret |-> r]

---------------------------------------------------------------------------
(* buildPacket.                                                            *)

\* the two flag bits exchanged
flagsByteSwapped(readonly, reply) ==
    BitOr(BitOr(0, Shl(readonly, 6)), Shl(reply, 7))

\* flagsByte = 0b0000000 | readonly << 7 | reply << 6
flagsByte(readonly, reply) == BitOr(BitOr(0, Shl(readonly, 7)), Shl(reply, 6))

\* the counter used without its mask
sequenceNumberUnmasked(seq, n) == IF seq = 0 THEN 0 ELSE n

\* the sequence byte: 0x00 when seq == 0, else self.seqN & 0xFF
sequenceNumber(seq, n) == IF seq = 0 THEN 0 ELSE Mask(n, 8)

\* the increment left out
advanceSeqNLost(seq, n) == n

\* self.seqN after buildPacket: incremented only when seq != 0
advanceSeqN(seq, n) == IF seq = 0 THEN n ELSE n + 1

\* the high byte taken from the low byte after its masking
packetLengthMaskedFirst(data) ==
    <<Mask(2 + Len(data), 8), Shr(Mask(2 + Len(data), 8), 8)>>

\* packetLengthLSB and packetLengthMSB
packetLength(data) == <<Mask(2 + Len(data), 8), Shr(2 + Len(data), 8)>>

\* the list buildPacket returns when self.seqN = n
buildPacket(cmd2, cmd3, data, readonly, reply, seq, n) ==
    <<0, flagsByte(readonly, reply), sequenceNumber(seq, n),
      packetLength(data)[1], packetLength(data)[2], cmd3, cmd2>> \o data

\* A command that builds one packet and writes it, expecting no response.
Send(cmd2, cmd3, data, seq, n, r) ==
    Result(<<W(buildPacket(cmd2, cmd3, data, 0, 0, seq, n),
               Built(cmd2, cmd3, data, 0, 0, seq))>>,
           advanceSeqN(seq, n), r)

\* What dlp_hid.read(rlen) returns: a 4-byte header, then the data bytes.
Response(rlen, data) ==
    [i \in 1..rlen |-> IF i > 4 /\ i - 4 <= Len(data) THEN data[i - 4] ELSE 0]

\* the response never read
ExchangeWriteOnly(cmd2, cmd3, data, readonly, rlen, resp, n, r) ==
    Result(<<W(buildPacket(cmd2, cmd3, data, readonly, 1, 0, n),
               Built(cmd2, cmd3, data, readonly, 1, 0))>>, n, r)

\* A command that builds one packet, writes it and reads rlen bytes.
Exchange(cmd2, cmd3, data, readonly, rlen, resp, n, r) ==
    Result(<<W(buildPacket(cmd2, cmd3, data, readonly, 1, 0, n),
               Built(cmd2, cmd3, data, readonly, 1, 0)),
             R(rlen, resp)>>, n, r)

---------------------------------------------------------------------------
(* The commands, as functions of the counter value n they start from and   *)
(* of the bytes v the device answers with.                                 *)

getHardwareStatus(n, v) ==
    Exchange(26, 10, <<>>, 1, 5, Response(5, <<v>>), n, Return(v))
getSystemStatus(n, v) ==
    Exchange(26, 11, <<>>, 1, 5, Response(5, <<v>>), n, Return(v))
getMainStatus(n, v) ==
    Exchange(26, 12, <<>>, 1, 5, Response(5, <<v>>), n, Return(v))

softwareReset(n) == Send(8, 2, <<0>>, 0, n, Return(1))
enterStandby(n) == Send(2, 0, <<1>>, 0, n, Return(1))
exitStandby(n) == Send(2, 0, <<0>>, 0, n, Return(1))
getFlashStatus(n, v) ==
    Exchange(0, 0, <<>>, 1, 5, Response(5, <<v>>), n, Return(v))
forceBufferSwap(n) == Send(26, 38, <<1>>, 0, n, Return(1))
disableBufferSwapping(n) == Send(16, 10, <<1>>, 0, n, Return(1))
enableBufferSwapping(n) == Send(16, 10, <<0>>, 0, n, Return(1))
disableBufferWrite(n) == Send(26, 39, <<1>>, 0, n, Return(1))
enableBufferWrite(n) == Send(26, 39, <<0>>, 0, n, Return(1))
getCurrentBufferPointer(n, v) ==
    Exchange(26, 40, <<>>, 1, 5, Response(5, <<v>>), n, Return(Mask(v, 1)))
getInputSource(n, v) ==
    Exchange(26, 0, <<>>, 1, 5, Response(5, <<v>>), n, Return(Mask(v, 2)))
setInputSource(source, n) ==
    Send(26, 0, <<Mask(source, 2)>>, 0, n, Return(1))
loadImage(index, n) == Send(26, 57, <<Mask(index, 8)>>, 0, n, Return(1))

\* _bytes2intLSB_(b): r |= b[i] << (i * 8) for i in (0, 1, 2, 3); indexing
\* a list of fewer than four bytes raises IndexError
bytes2intLSB(b) ==
    IF Len(b) < 4 THEN Raise("IndexError")
    ELSE Return(BitOr(BitOr(BitOr(BitOr(0, Shl(b[1], 0)), Shl(b[2], 8)),
                            Shl(b[3], 16)), Shl(b[4], 24)))

\* return self._bytes2intLSB_(d[4:7]) // 18667, where d[4:7] is the three
\* bytes at offsets 4, 5 and 6 of the response
getImageLoadTiming(startingIndex, imageNumber, n, v) ==
    LET resp == Response(8, v)
        ticks == bytes2intLSB(SubSeq(resp, 5, 7))
    IN  Exchange(26, 58, <<startingIndex, imageNumber>>, 0, 8, resp, n,
                 IF ticks.kind = "raise" THEN ticks
                 ELSE Return(ticks.val \div 18667))

getDisplayMode(n, v) ==
    Exchange(26, 27, <<>>, 1, 5, Response(5, <<v>>), n, Return(v))
setDisplayMode(mode, n) == Send(26, 27, <<Mask(mode, 1)>>, 0, n, Return(1))
startValidation(n) == Send(26, 26, <<0>>, 0, n, Return(1))
getValidationData(n, v) ==
    Exchange(26, 26, <<>>, 1, 5, Response(5, <<v>>), n, Return(v))

\* the bound of the mode check off by one
setPatternTriggerModeLoose(mode, n) ==
    IF mode > 5 THEN Result(<<>>, n, Return(-1))
    ELSE Send(26, 35, <<mode>>, 1, n, Return(1))

setPatternTriggerMode(mode, n) ==
    IF mode > 4 THEN Result(<<>>, n, Return(-1))
    ELSE Send(26, 35, <<mode>>, 1, n, Return(1))

setTriggerOut1Control(invert_polarity, rising_delay, falling_delay, n) ==
    Send(26, 29, <<IF invert_polarity # 0 THEN 2 ELSE 0, rising_delay,
                   falling_delay>>, 1, n, Return(1))

setPatternInputSource(source, n) ==
    IF source \notin {0, 3} THEN Result(<<>>, n, Return(-1))
    ELSE Send(26, 34, <<source>>, 1, n, Return(1))

startPatternSequence(n) == Send(26, 36, <<2>>, 0, n, Return(1))
pausePatternSequence(n) == Send(26, 36, <<1>>, 0, n, Return(1))
stopPatternSequence(n) == Send(26, 36, <<0>>, 0, n, Return(1))

int2bytesMSB(n) ==
    <<Mask(Shr(n, 24), 8), Mask(Shr(n, 16), 8), Mask(Shr(n, 8), 8),
      Mask(Shr(n, 0), 8)>>

\* _int2bytesLSB_: the four low bytes of n, least significant first
int2bytesLSB(n) ==
    <<Mask(Shr(n, 0), 8), Mask(Shr(n, 8), 8), Mask(Shr(n, 16), 8),
      Mask(Shr(n, 24), 8)>>

\* self.framePeriod before its conversion to bytes
framePeriodOf(exposure, longerFramePeriod) ==
    IF longerFramePeriod = 1 THEN exposure + 230 ELSE exposure

setPatternExposureTime(exposure, longerFramePeriod, n) ==
    Send(26, 41,
         int2bytesLSB(exposure)
           \o int2bytesLSB(framePeriodOf(exposure, longerFramePeriod)),
         1, n, Return(1))

LUTControl(lutEntries, repeat, nrOfPattern, flashImages, n) ==
    Send(26, 49, <<Mask(lutEntries - 1, 7), Mask(repeat, 1), nrOfPattern - 1,
                   Mask(flashImages - 1, 6)>>, 1, n, Return(1))

setLUTOffsetPointer(offset, n) ==
    Send(26, 50, <<Mask(offset, 8)>>, 1, n, Return(1))

\* the function masked to one bit
openMailboxOneBit(function, n) ==
    IF function \notin {1, 2, 3} THEN Result(<<>>, n, Return(-1))
    ELSE Send(26, 51, <<Mask(function, 1)>>, 1, n, Return(1))

openMailbox(function, n) ==
    IF function \notin {1, 2, 3} THEN Result(<<>>, n, Return(-1))
    ELSE Send(26, 51, <<Mask(function, 2)>>, 1, n, Return(1))

closeMailboxesUntracked(n) == Send(26, 51, <<0>>, 0, n, Return(1))
closeMailboxes(n) == Send(26, 51, <<0>>, 1, n, Return(1))
setFlashImageIndexes(indexes, n) == Send(26, 52, indexes, 1, n, Return(1))
fillPatternData(data, n) == Send(26, 52, data, 1, n, Return(1))

getLEDOutputEnable(n, v) ==
    Exchange(26, 7, <<>>, 1, 5, Response(5, <<v>>), n, Return(v))
getLEDPWMPolarity(n, v) ==
    Exchange(26, 5, <<>>, 1, 5, Response(5, <<v>>), n, Return(v))
\* v is the three data bytes; the method returns d[4:6], two of them
getLEDCurrent(n, v) ==
    Exchange(11, 1, <<>>, 1, 7, Response(7, v), n,
             ReturnList(<<v[1], v[2]>>))

\* the threshold met counts as exceeded
checkLedCurrentInclusive(r, g, b, lcrafterChk) ==
    IF r > 255 \/ g > 255 \/ b > 255 THEN 0
    ELSE IF lcrafterChk # 0 /\ 69 * r + 71 * g + 63 * b + 9611 >= 42000 THEN 0
    ELSE 1

\* totalCurrent = (r * 0.0069) + (g * 0.0071) + (b * 0.0063) + 0.9611 is
\* compared with 4.2 on the amperes scaled by 10000; for every r, g, b in
\* 0..255 the comparison of the floating-point values has the same result
checkLedCurrent(r, g, b, lcrafterChk) ==
    IF r > 255 \/ g > 255 \/ b > 255 THEN 0
    ELSE IF lcrafterChk # 0 /\ 69 * r + 71 * g + 63 * b + 9611 > 42000 THEN 0
    ELSE 1

\* the packet written whatever the guard says
setLEDCurrentUnguarded(r, g, b, n) ==
    Send(11, 1, <<255 - r, 255 - g, 255 - b>>, 0, n, Return(1))

\* the method returns 1 on both branches
setLEDCurrent(r, g, b, n) ==
    IF checkLedCurrent(r, g, b, 1) = 1
    THEN Send(11, 1, <<255 - r, 255 - g, 255 - b>>, 0, n, Return(1))
    ELSE Result(<<>>, n, Return(1))

configureGPIO(pin, state, buffertype, direction, disable, n) ==
    Send(26, 56,
         <<Mask(pin, 8),
           BitOr(BitOr(BitOr(BitOr(0, Shl(Mask(state, 1), 3)),
                             Shl(Mask(buffertype, 1), 4)),
                       Shl(Mask(direction, 1), 5)),
                 Shl(Mask(disable, 1), 7))>>, 0, n, Return(1))

readGPIO(pin, n, v) ==
    Exchange(26, 56, <<Mask(pin, 8)>>, 1, 6, Response(6, <<0, v>>), n,
             Return(v))

\* bit 0 tested instead of the whole byte
getStatusBitTest(n, h, s, m) ==
    Result(getHardwareStatus(n, h).io \o getSystemStatus(n, s).io
             \o getMainStatus(n, m).io,
           n, Return(IF h % 2 = 1 /\ s % 2 = 1 THEN 1 ELSE 0))

\* getStatus: the three status reads, then the comparison; h, s, m are the
\* bytes the device answers with
getStatus(n, h, s, m) ==
    Result(getHardwareStatus(n, h).io \o getSystemStatus(n, s).io
             \o getMainStatus(n, m).io,
           n, Return(IF h = 1 /\ s = 1 THEN 1 ELSE 0))

\* the bound of the loop off by one
pollContinuesInclusive(st, count, bound) == st = 0 /\ count <= bound

\* the loop condition of pollForStatusOK: not status and k < timeout
pollContinues(st, count, bound) == st = 0 /\ count < bound

\* the wrong bit tested
validationBusyBit6(v) == Shr(v, 6) = 1

\* the loop condition of validateSequence: (d >> 7) == 1
validationBusy(v) == Shr(v, 7) = 1

\* len(sequence) % 3 or not nrOfLUTEntries
invalidSequence(sequence) ==
    Len(sequence) % 3 # 0 \/ Len(sequence) \div 3 = 0

\* the check without its test for an empty list
invalidFlashImagesNoZero(nrOfFlashImages, nrOfLUTEntries) ==
    nrOfFlashImages > nrOfLUTEntries

\* not nrOfFlashImages or nrOfFlashImages > nrOfLUTEntries
invalidFlashImages(nrOfFlashImages, nrOfLUTEntries) ==
    nrOfFlashImages = 0 \/ nrOfFlashImages > nrOfLUTEntries

\* sendPatternSequence: the two shape checks, then the twelve setters, whose
\* return values are not looked at
sendPatternSequence(sequence, flashIndexes, displayTime, triggerMode, repeat, n) ==
    LET nrOfLUTEntries == Len(sequence) \div 3
        nrOfFlashImages == Len(flashIndexes)
        r1 == setPatternInputSource(3, n)
        r2 == LUTControl(nrOfLUTEntries, repeat, nrOfLUTEntries,
                         nrOfFlashImages, r1.seqN)
        r3 == setPatternExposureTime(displayTime, 0, r2.seqN)
        r4 == setPatternTriggerMode(triggerMode, r3.seqN)
        r5 == openMailbox(2, r4.seqN)
        r6 == setLUTOffsetPointer(0, r5.seqN)
        r7 == fillPatternData(sequence, r6.seqN)
        r8 == closeMailboxes(r7.seqN)
        r9 == openMailbox(1, r8.seqN)
        r10 == setLUTOffsetPointer(0, r9.seqN)
        r11 == setFlashImageIndexes(flashIndexes, r10.seqN)
        r12 == closeMailboxes(r11.seqN)
    IN  IF invalidSequence(sequence)
        THEN Result(<<>>, n, Raise("SettingsError"))
        ELSE IF invalidFlashImages(nrOfFlashImages, nrOfLUTEntries)
        THEN Result(<<>>, n, Raise("SettingsError"))
        ELSE Result(r1.io \o r2.io \o r3.io \o r4.io \o r5.io \o r6.io
                      \o r7.io \o r8.io \o r9.io \o r10.io \o r11.io
                      \o r12.io,
                    r12.seqN, ReturnNone)

---------------------------------------------------------------------------
(* Inputs and device answers.                                              *)

\* The sessions observed, as <<seqN, dryrun>>: a session right after
\* __init__ (seqN = 1) on either transport, and a session on the real
\* transport that has built 249 sequence-tracked packets since.
Sessions == {<<1, 0>>, <<1, 1>>, <<250, 0>>}

\* fakehid.device.read returns [0] * max_length whatever was written
Device(S) == IF dryrun = 1 THEN {0} ELSE S
DeviceTriples(S) == IF dryrun = 1 THEN {<<0, 0, 0>>} ELSE S

\* <<hardware, system, main>> status bytes the device answers with
StatusAnswers ==
    {<<0, 0, 0>>, <<1, 1, 0>>, <<1, 1, 2>>, <<3, 1, 0>>, <<1, 0, 2>>}
HardwareBytes == {a[1] : a \in StatusAnswers}
SystemBytes == {a[2] : a \in StatusAnswers}
MainBytes == {a[3] : a \in StatusAnswers}
ValidationBytes == {0, 2, 129}
Timeouts == {-1, 0, 1, 4}
TriggerModes == {0, 1, 4, 5}
PatternSources == {0, 1, 3}
MailboxFunctions == {0, 1, 2, 3, 4}
ExposureTimes == {100000}
\* exposureTime argument of setPatternExposureTime: four different bytes
\* (0x010203F0), and a frame period that carries into the second
ExposureArgs == {16909296}
PatternSequences == {<<>>, <<0, 33, 6>>, <<0, 33, 6, 1>>, <<0, 33, 6, 1, 33, 6>>}
\* a sequence of 129 LUT entries: one more than seven bits can count
LongSequence == [i \in 1..387 |-> (7 * i) % 256]
\* rising_delay arguments: the documented default and one above a byte
TriggerDelays == {187, 300}
FlashIndexes == {<<>>, <<8>>, <<8, 9>>, <<8, 9, 10>>}
\* <<r, g, b>> requested: the defaults, the extremes, an argument above 255,
\* and estimated currents of exactly 4.2 A and of 4.2001 A
LedRequests ==
    {<<151, 120, 125>>, <<255, 255, 255>>, <<0, 0, 0>>, <<256, 0, 0>>,
     <<170, 149, 160>>, <<171, 109, 204>>}
LedAnswers == {<<104, 135, 130>>}
\* <<triggerMode, repeat>>
SendOptions == {<<1, 0>>, <<5, 1>>}

---------------------------------------------------------------------------
(* The session.                                                            *)

\* the threads of a session that is not shared
NoThreads ==
    [locked |-> FALSE, holder |-> 0, pc |-> <<"none", "none">>,
     byte |-> <<0, 0>>, tmp |-> <<0, 0>>, sent |-> <<>>,
     origin |-> [hardware |-> 0, system |-> 0, main |-> 0]]

Init ==
    /\ \E s \in Sessions : seqN = s[1] /\ dryrun = s[2]
    /\ connected = 0
    /\ status = [hardware |-> 0, system |-> 0, main |-> 0, displaymode |-> 0,
                 inputsource |-> 0, ledRed |-> 0, ledGreen |-> 0,
                 ledBlue |-> 0]
    /\ exposureTime = <<>>
    /\ framePeriod = <<>>
    /\ DisplayMode = -1
    /\ pc = "idle"
    /\ k = 0
    /\ poll_status = 0
    /\ timeout = 0
    /\ d = 0
    /\ call = [op |-> "__init__", args |-> <<>>, lists |-> <<>>]
    /\ ret = ReturnNone
    /\ io = <<>>
    /\ nWrites = 0
    /\ nReads = 0
    /\ vlog = <<>>
    /\ beat = 0
    /\ seq0 = seqN
    /\ acks = 0
    /\ opCount = 0
    /\ opened = "no"
    /\ closed = 0
    /\ thr = NoThreads

Min(a, b) == IF a < b THEN a ELSE b

\* the number of sequence-tracked packets among the writes of log
Tracked(log) ==
    Len(SelectSeq(log, LAMBDA e : e.dir = "w" /\ e.built.seq # 0))

\* The observation of one step that made the transport calls of res.
Observe(res, first) ==
    /\ io' = res.io
    /\ nWrites' = Min((IF first THEN 0 ELSE nWrites) + Len(Writes(res.io)),
                      MaxCount)
    /\ nReads' = Min((IF first THEN 0 ELSE nReads) + Len(Reads(res.io)),
                     MaxCount)
    /\ acks' = acks + Tracked(res.io)
    /\ seq0' = seq0

\* A method that runs in one step: invoked with args when no method is
\* running, it makes the transport calls of res and leaves its outcome (r is
\* res, evaluated once).
InvokeWith(name, args, lists, res) ==
    /\ pc = "idle"
    /\ opCount < MaxOps
    /\ \E r \in {res} :
        /\ opCount' = opCount + 1
        /\ call' = [op |-> name, args |-> args, lists |-> lists]
        /\ ret' = r.ret
        /\ seqN' = r.seqN
        /\ vlog' = <<>>
        /\ Observe(r, TRUE)
        /\ UNCHANGED <<still, locals, beat>>

\* a method whose arguments are integers
Invoke(name, args, res) == InvokeWith(name, args, <<>>, res)

attrs == <<exposureTime, framePeriod, DisplayMode>>

\* connectDLP; ok tells whether dlp_hid.open returned (it raised IOError
\* otherwise, which the dry-run transport never does): the IOError is caught
\* and 0 is returned
ConnectDLP ==
    \E ok \in (IF dryrun = 1 THEN {TRUE} ELSE {TRUE, FALSE}) :
        /\ Invoke("connectDLP", <<>>,
                  Result(<<O(IF ok THEN 0 ELSE 1)>>, seqN,
                         Return(IF ok THEN 1 ELSE 0)))
        /\ connected' = (IF ok THEN 1 ELSE connected)
        /\ opened' = (IF ok \/ opened = "yes" THEN "yes" ELSE "failed")
        /\ UNCHANGED <<status, attrs>>

GetHardwareStatus ==
    \E v \in Device(HardwareBytes) :
        /\ Invoke("getHardwareStatus", <<>>, getHardwareStatus(seqN, v))
        /\ UNCHANGED <<link, status, attrs>>

GetSystemStatus ==
    \E v \in Device(SystemBytes) :
        /\ Invoke("getSystemStatus", <<>>, getSystemStatus(seqN, v))
        /\ UNCHANGED <<link, status, attrs>>

GetMainStatus ==
    \E v \in Device(MainBytes) :
        /\ Invoke("getMainStatus", <<>>, getMainStatus(seqN, v))
        /\ UNCHANGED <<link, status, attrs>>

SoftwareResetClearing ==
    /\ Invoke("softwareReset", <<>>, softwareReset(seqN))
    /\ status' = [f \in DOMAIN status |-> 0]
    /\ UNCHANGED <<link, attrs>>

SoftwareReset ==
    /\ Invoke("softwareReset", <<>>, softwareReset(seqN))
    /\ UNCHANGED <<link, status, attrs>>

EnterStandby ==
    /\ Invoke("enterStandby", <<>>, enterStandby(seqN))
    /\ UNCHANGED <<link, status, attrs>>

ExitStandby ==
    /\ Invoke("exitStandby", <<>>, exitStandby(seqN))
    /\ UNCHANGED <<link, status, attrs>>

GetFlashStatus ==
    \E v \in Device({1}) :
        /\ Invoke("getFlashStatus", <<>>, getFlashStatus(seqN, v))
        /\ DisplayMode' = v
        /\ UNCHANGED <<link, status, exposureTime, framePeriod>>

ForceBufferSwap ==
    /\ Invoke("forceBufferSwap", <<>>, forceBufferSwap(seqN))
    /\ UNCHANGED <<link, status, attrs>>

DisableBufferSwapping ==
    /\ Invoke("disableBufferSwapping", <<>>, disableBufferSwapping(seqN))
    /\ UNCHANGED <<link, status, attrs>>

EnableBufferSwapping ==
    /\ Invoke("enableBufferSwapping", <<>>, enableBufferSwapping(seqN))
    /\ UNCHANGED <<link, status, attrs>>

DisableBufferWrite ==
    /\ Invoke("disableBufferWrite", <<>>, disableBufferWrite(seqN))
    /\ UNCHANGED <<link, status, attrs>>

EnableBufferWrite ==
    /\ Invoke("enableBufferWrite", <<>>, enableBufferWrite(seqN))
    /\ UNCHANGED <<link, status, attrs>>

GetCurrentBufferPointer ==
    \E v \in Device({0, 3}) :
        /\ Invoke("getCurrentBufferPointer", <<>>,
                  getCurrentBufferPointer(seqN, v))
        /\ UNCHANGED <<link, status, attrs>>

GetInputSource ==
    \E v \in Device({7}) :
        /\ Invoke("getInputSource", <<>>, getInputSource(seqN, v))
        /\ status' = [status EXCEPT !.inputsource = Mask(v, 2)]
        /\ UNCHANGED <<link, attrs>>

SetInputSource ==
    \E source \in {0, 2} :
        /\ Invoke("setInputSource", <<source>>, setInputSource(source, seqN))
        /\ UNCHANGED <<link, status, attrs>>

LoadImage ==
    \E index \in {0, 8} :
        /\ Invoke("loadImage", <<index>>, loadImage(index, seqN))
        /\ UNCHANGED <<link, status, attrs>>

GetImageLoadTiming ==
    \E v \in DeviceTriples({<<0, 73, 2>>}) :
        /\ Invoke("getImageLoadTiming", <<0, 1>>,
                  getImageLoadTiming(0, 1, seqN, v))
        /\ UNCHANGED <<link, status, attrs>>

GetDisplayMode ==
    \E v \in Device({1}) :
        /\ Invoke("getDisplayMode", <<>>, getDisplayMode(seqN, v))
        /\ status' = [status EXCEPT !.displaymode = v]
        /\ UNCHANGED <<link, attrs>>

SetDisplayMode ==
    \E mode \in {0, 1} :
        /\ Invoke("setDisplayMode", <<mode>>, setDisplayMode(mode, seqN))
        /\ UNCHANGED <<link, status, attrs>>

StartValidation ==
    /\ Invoke("startValidation", <<>>, startValidation(seqN))
    /\ UNCHANGED <<link, status, attrs>>

GetValidationData ==
    \E v \in Device(ValidationBytes) :
        /\ Invoke("getValidationData", <<>>, getValidationData(seqN, v))
        /\ UNCHANGED <<link, status, attrs>>

SetPatternTriggerMode ==
    \E mode \in TriggerModes :
        /\ Invoke("setPatternTriggerMode", <<mode>>,
                  setPatternTriggerMode(mode, seqN))
        /\ UNCHANGED <<link, status, attrs>>

SetTriggerOut1Control ==
    \E invert_polarity \in {0, 1}, rising_delay \in TriggerDelays :
        /\ Invoke("setTriggerOut1Control",
                  <<invert_polarity, rising_delay, 187>>,
                  setTriggerOut1Control(invert_polarity, rising_delay, 187,
                                        seqN))
        /\ UNCHANGED <<link, status, attrs>>

SetPatternInputSource ==
    \E source \in PatternSources :
        /\ Invoke("setPatternInputSource", <<source>>,
                  setPatternInputSource(source, seqN))
        /\ UNCHANGED <<link, status, attrs>>

StartPatternSequence ==
    /\ Invoke("startPatternSequence", <<>>, startPatternSequence(seqN))
    /\ UNCHANGED <<link, status, attrs>>

PausePatternSequence ==
    /\ Invoke("pausePatternSequence", <<>>, pausePatternSequence(seqN))
    /\ UNCHANGED <<link, status, attrs>>

StopPatternSequence ==
    /\ Invoke("stopPatternSequence", <<>>, stopPatternSequence(seqN))
    /\ UNCHANGED <<link, status, attrs>>

SetPatternExposureTime ==
    \E exposure \in ExposureArgs, longerFramePeriod \in {0, 1} :
        /\ Invoke("setPatternExposureTime", <<exposure, longerFramePeriod>>,
                  setPatternExposureTime(exposure, longerFramePeriod, seqN))
        /\ exposureTime' = int2bytesLSB(exposure)
        /\ framePeriod' =
               int2bytesLSB(framePeriodOf(exposure, longerFramePeriod))
        /\ UNCHANGED <<link, status, DisplayMode>>

LutControl ==
    \E a \in {<<1, 0, 1, 1>>, <<2, 1, 2, 1>>} :
        /\ Invoke("LUTControl", a, LUTControl(a[1], a[2], a[3], a[4], seqN))
        /\ UNCHANGED <<link, status, attrs>>

SetLUTOffsetPointer ==
    \E offset \in {0, 1} :
        /\ Invoke("setLUTOffsetPointer", <<offset>>,
                  setLUTOffsetPointer(offset, seqN))
        /\ UNCHANGED <<link, status, attrs>>

OpenMailbox ==
    \E function \in MailboxFunctions :
        /\ Invoke("openMailbox", <<function>>, openMailbox(function, seqN))
        /\ UNCHANGED <<link, status, attrs>>

CloseMailboxes ==
    /\ Invoke("closeMailboxes", <<>>, closeMailboxes(seqN))
    /\ UNCHANGED <<link, status, attrs>>

SetFlashImageIndexes ==
    \E indexes \in {<<8>>, <<8, 9>>} :
        /\ InvokeWith("setFlashImageIndexes", <<>>, <<indexes>>,
                      setFlashImageIndexes(indexes, seqN))
        /\ UNCHANGED <<link, status, attrs>>

FillPatternData ==
    \E data \in {<<0, 33, 6>>, [i \in 1..LongLen |-> i % 256]} :
        /\ InvokeWith("fillPatternData", <<>>, <<data>>,
                      fillPatternData(data, seqN))
        /\ UNCHANGED <<link, status, attrs>>

GetLEDOutputEnable ==
    \E v \in Device({0, 7}) :
        /\ Invoke("getLEDOutputEnable", <<>>, getLEDOutputEnable(seqN, v))
        /\ UNCHANGED <<link, status, attrs>>

GetLEDPWMPolarity ==
    \E v \in Device({0, 1}) :
        /\ Invoke("getLEDPWMPolarity", <<>>, getLEDPWMPolarity(seqN, v))
        /\ UNCHANGED <<link, status, attrs>>

GetLEDCurrent ==
    \E v \in DeviceTriples(LedAnswers) :
        /\ Invoke("getLEDCurrent", <<>>, getLEDCurrent(seqN, v))
        /\ status' = [status EXCEPT !.ledRed = 255 - v[1],
                                    !.ledGreen = 255 - v[2],
                                    !.ledBlue = 255 - v[3]]
        /\ UNCHANGED <<link, attrs>>

CheckLedCurrent ==
    \E c \in LedRequests, lcrafterChk \in {0, 1} :
        /\ Invoke("checkLedCurrent", <<c[1], c[2], c[3], lcrafterChk>>,
                  Result(<<>>, seqN,
                         Return(checkLedCurrent(c[1], c[2], c[3],
                                                lcrafterChk))))
        /\ UNCHANGED <<link, status, attrs>>

SetLEDCurrent ==
    \E c \in LedRequests :
        /\ Invoke("setLEDCurrent", c, setLEDCurrent(c[1], c[2], c[3], seqN))
        /\ UNCHANGED <<link, status, attrs>>

ConfigureGPIO ==
    \E state \in {0, 1}, direction \in {0, 1} :
        /\ Invoke("configureGPIO", <<5, state, 0, direction, 0>>,
                  configureGPIO(5, state, 0, direction, 0, seqN))
        /\ UNCHANGED <<link, status, attrs>>

ReadGPIO ==
    \E v \in Device({0, 1}) :
        /\ Invoke("readGPIO", <<5>>, readGPIO(5, seqN, v))
        /\ UNCHANGED <<link, status, attrs>>

GetStatus ==
    \E a \in DeviceTriples(StatusAnswers) :
        /\ Invoke("getStatus", <<>>, getStatus(seqN, a[1], a[2], a[3]))
        /\ status' = [status EXCEPT !.hardware = a[1], !.system = a[2],
                                    !.main = a[3]]
        /\ UNCHANGED <<link, attrs>>

\* pollForStatusOK(timeout): k = 0, status = 0
PollForStatusOK ==
    \E t \in Timeouts :
        /\ pc = "idle"
        /\ opCount < MaxOps
        /\ opCount' = opCount + 1
        /\ call' = [op |-> "pollForStatusOK", args |-> <<t>>, lists |-> <<>>]
        /\ ret' = Running
        /\ pc' = "poll"
        /\ k' = 0
        /\ poll_status' = 0
        /\ timeout' = t
        /\ vlog' = <<>>
        /\ Observe(Result(<<>>, seqN, Running), TRUE)
        /\ UNCHANGED <<prog, d, beat>>

\* one iteration of the loop: status = self.getStatus(); k += 1
PollAttempt ==
    /\ pc = "poll"
    /\ pollContinues(poll_status, k, timeout)
    /\ \E a \in DeviceTriples(StatusAnswers) :
           LET res == getStatus(seqN, a[1], a[2], a[3]) IN
           /\ status' = [status EXCEPT !.hardware = a[1], !.system = a[2],
                                       !.main = a[3]]
           /\ poll_status' = res.ret.val
           /\ seqN' = res.seqN
           /\ Observe(res, FALSE)
    /\ k' = k + 1
    /\ UNCHANGED <<link, still, attrs, pc, timeout, d, call, ret, vlog,
                   beat, opCount>>

\* the loop is left: return status
PollReturn ==
    /\ pc = "poll"
    /\ ~pollContinues(poll_status, k, timeout)
    /\ pc' = "idle"
    /\ ret' = Return(poll_status)
    /\ io' = <<>>
    /\ UNCHANGED <<prog, k, poll_status, timeout, d, call, nWrites, nReads,
                   vlog, beat, seq0, acks, opCount>>

\* the validation bytes recorded so far, with v added while there is room
Record(log, v) == IF Len(log) < MaxPolls THEN Append(log, v) ELSE log

\* validateSequence up to its loop: startValidation(), then
\* d = getValidationData()
ValidateSequence ==
    \E v \in Device(ValidationBytes) :
        LET r1 == startValidation(seqN)
            r2 == getValidationData(r1.seqN, v)
        IN  /\ pc = "idle"
            /\ opCount < MaxOps
            /\ opCount' = opCount + 1
            /\ call' = [op |-> "validateSequence", args |-> <<>>,
                        lists |-> <<>>]
            /\ ret' = Running
            /\ pc' = "validate"
            /\ d' = r2.ret.val
            /\ seqN' = r2.seqN
            /\ vlog' = Record(<<>>, v)
            /\ Observe(Result(r1.io \o r2.io, r2.seqN, Running), TRUE)
            /\ UNCHANGED <<link, status, still, attrs, k, poll_status,
                           timeout, beat>>

\* one iteration of the loop: d = getValidationData()
ValidatePoll ==
    /\ pc = "validate"
    /\ validationBusy(d)
    /\ \E v \in Device(ValidationBytes) :
           LET res == getValidationData(seqN, v) IN
           /\ d' = res.ret.val
           /\ seqN' = res.seqN
           /\ vlog' = Record(vlog, v)
           /\ Observe(res, FALSE)
    /\ beat' = 1 - beat
    /\ UNCHANGED <<link, status, still, attrs, pc, k, poll_status,
                   timeout, call, ret, opCount>>

\* the loop is left: the fault bits are printed and d is returned
ValidateReturn ==
    /\ pc = "validate"
    /\ ~validationBusy(d)
    /\ pc' = "idle"
    /\ ret' = Return(d)
    /\ io' = <<>>
    /\ UNCHANGED <<prog, k, poll_status, timeout, d, call, nWrites, nReads,
                   vlog, beat, seq0, acks, opCount>>

SendPatternSequence ==
    \E sequence \in PatternSequences, flashIndexes \in FlashIndexes,
       displayTime \in ExposureTimes, o \in SendOptions :
        LET res == sendPatternSequence(sequence, flashIndexes, displayTime,
                                       o[1], o[2], seqN)
        IN  /\ InvokeWith("sendPatternSequence", <<displayTime, o[1], o[2]>>,
                          <<sequence, flashIndexes>>, res)
            /\ IF res.ret.kind = "raise"
               THEN UNCHANGED <<exposureTime, framePeriod>>
               ELSE /\ exposureTime' = int2bytesLSB(displayTime)
                    /\ framePeriod' = int2bytesLSB(framePeriodOf(displayTime,
                                                                 0))
            /\ UNCHANGED <<link, status, DisplayMode>>

Next ==
    \/ ConnectDLP
    \/ GetHardwareStatus
    \/ GetSystemStatus
    \/ GetMainStatus
    \/ SoftwareReset
    \/ EnterStandby
    \/ ExitStandby
    \/ GetFlashStatus
    \/ ForceBufferSwap
    \/ DisableBufferSwapping
    \/ EnableBufferSwapping
    \/ DisableBufferWrite
    \/ EnableBufferWrite
    \/ GetCurrentBufferPointer
    \/ GetInputSource
    \/ SetInputSource
    \/ LoadImage
    \/ GetImageLoadTiming
    \/ GetDisplayMode
    \/ SetDisplayMode
    \/ StartValidation
    \/ GetValidationData
    \/ SetPatternTriggerMode
    \/ SetTriggerOut1Control
    \/ SetPatternInputSource
    \/ StartPatternSequence
    \/ PausePatternSequence
    \/ StopPatternSequence
    \/ SetPatternExposureTime
    \/ LutControl
    \/ SetLUTOffsetPointer
    \/ OpenMailbox
    \/ CloseMailboxes
    \/ SetFlashImageIndexes
    \/ FillPatternData
    \/ GetLEDOutputEnable
    \/ GetLEDPWMPolarity
    \/ GetLEDCurrent
    \/ CheckLedCurrent
    \/ SetLEDCurrent
    \/ ConfigureGPIO
    \/ ReadGPIO
    \/ GetStatus
    \/ PollForStatusOK
    \/ PollAttempt
    \/ PollReturn
    \/ ValidateSequence
    \/ ValidatePoll
    \/ ValidateReturn
    \/ SendPatternSequence

Spec == Init /\ [][Next]_vars

\* A method that has been invoked runs on: its loop iterations and its
\* return are taken whenever they can be.
FairSpec ==
    /\ Spec
    /\ WF_vars(PollAttempt)
    /\ WF_vars(PollReturn)
    /\ WF_vars(ValidatePoll)
    /\ WF_vars(ValidateReturn)

---------------------------------------------------------------------------
(* The session on a transport whose calls can fail, up to its finalisation. *)

\* The run of a command cut at its f-th transport call, which raises
\* IOError: no method catches it, so the calls before it are made, the
\* packet of a failing write has been built (and has taken its sequence
\* number), nothing after it runs and the error reaches the caller.
FailAt(res, f) ==
    LET e == res.io[f]
        made == SubSeq(res.io, 1, f - 1)
                  \o <<[e EXCEPT !.failed = 1,
                                 !.bytes = IF e.dir = "r" THEN <<>> ELSE @]>>
    IN  Result(made, res.seqN - Tracked(res.io) + Tracked(made),
               Raise("IOError"))

\* getHardwareStatus when its write (f = 1) or its read (f = 2) fails
GetHardwareStatusFailing ==
    \E v \in HardwareBytes, f \in 1..2 :
        /\ dryrun = 0
        /\ Invoke("getHardwareStatus", <<>>,
                  FailAt(getHardwareStatus(seqN, v), f))
        /\ UNCHANGED <<link, status, attrs>>

\* getStatus when its f-th transport call fails: the status bytes read
\* before it are stored
GetStatusFailing ==
    \E a \in StatusAnswers, f \in 1..6 :
        /\ dryrun = 0
        /\ Invoke("getStatus", <<>>,
                  FailAt(getStatus(seqN, a[1], a[2], a[3]), f))
        /\ status' = [status EXCEPT
                        !.hardware = IF f > 2 THEN a[1] ELSE @,
                        !.system = IF f > 4 THEN a[2] ELSE @]
        /\ UNCHANGED <<link, attrs>>

\* sendPatternSequence when its f-th write fails; setPatternExposureTime,
\* which makes the third write, sets exposureTime and framePeriod first
SendPatternSequenceFailing ==
    \E sequence \in PatternSequences, flashIndexes \in FlashIndexes,
       displayTime \in ExposureTimes, o \in SendOptions :
        LET res == sendPatternSequence(sequence, flashIndexes, displayTime,
                                       o[1], o[2], seqN)
        IN  /\ dryrun = 0
            /\ \E f \in 1..Len(res.io) :
                /\ InvokeWith("sendPatternSequence",
                              <<displayTime, o[1], o[2]>>,
                              <<sequence, flashIndexes>>, FailAt(res, f))
                /\ IF f < 3
                   THEN UNCHANGED <<exposureTime, framePeriod>>
                   ELSE /\ exposureTime' = int2bytesLSB(displayTime)
                        /\ framePeriod' =
                               int2bytesLSB(framePeriodOf(displayTime, 0))
            /\ UNCHANGED <<link, status, DisplayMode>>

\* __del__: self.dlp_hid.close(), when the session object is finalised; no
\* method is called on it afterwards
Del ==
    /\ pc = "idle"
    /\ pc' = "deleted"
    /\ closed' = 1
    /\ call' = [op |-> "__del__", args |-> <<>>, lists |-> <<>>]
    /\ ret' = ReturnNone
    /\ vlog' = <<>>
    /\ Observe(Result(<<Closing>>, seqN, ReturnNone), TRUE)
    /\ UNCHANGED <<seqN, link, status, dryrun, thr, attrs, k, poll_status,
                   timeout, d, beat, opCount>>

FaultNext ==
    \/ ConnectDLP
    \/ GetHardwareStatus
    \/ GetHardwareStatusFailing
    \/ GetStatus
    \/ GetStatusFailing
    \/ SendPatternSequence
    \/ SendPatternSequenceFailing
    \/ PollForStatusOK
    \/ PollAttempt
    \/ PollReturn
    \/ Del

\* A method that has been invoked runs on.  Nothing makes the finalisation
\* of the session happen: the class has no other call of close, and Python
\* does not promise to run __del__.
FaultSpec ==
    /\ Init
    /\ [][FaultNext]_vars
    /\ WF_vars(PollAttempt)
    /\ WF_vars(PollReturn)

---------------------------------------------------------------------------
(* The session shared by two threads.  Each thread calls closeMailboxes    *)
(* (a sequence-tracked command) and then getStatus.  A thread switch can   *)
(* fall between any two accesses of the object: buildPacket reads          *)
(* self.seqN for the sequence byte, then reads it again and stores it      *)
(* incremented (self.seqN += 1); getStatus stores the three status bytes   *)
(* one after the other.  The class takes no lock; thr.locked tells whether *)
(* the callers wrap each call in one common lock, thr.holder who holds it. *)

Threads == {1, 2}

\* thread t may take a step: the first step of a call takes the lock
MayRun(t, first) ==
    \/ ~thr.locked
    \/ IF first THEN thr.holder = 0 ELSE thr.holder = t

\* the lock after a step of thread t that begins or ends a call
Holder(t, last) == IF thr.locked /\ ~last THEN t ELSE 0

\* two threads are started on the idle session, with or without the lock
Spawn ==
    /\ pc = "idle"
    /\ thr = NoThreads
    /\ \E l \in BOOLEAN :
           thr' = [NoThreads EXCEPT !.locked = l,
                                    !.pc = <<"seqbyte", "seqbyte">>]
    /\ UNCHANGED <<seqN, link, status, dryrun, closed, attrs, locals, obs>>

\* buildPacket, seq != 0: sequenceNumber = self.seqN & 0xFF
ThreadSeqByte(t) ==
    /\ thr.pc[t] = "seqbyte"
    /\ MayRun(t, TRUE)
    /\ thr' = [thr EXCEPT !.pc[t] = "load", !.holder = Holder(t, FALSE),
                          !.byte[t] = sequenceNumber(1, seqN)]
    /\ UNCHANGED <<seqN, link, status, dryrun, closed, attrs, locals, obs>>

\* self.seqN += 1: the attribute is loaded
ThreadLoad(t) ==
    /\ thr.pc[t] = "load"
    /\ MayRun(t, FALSE)
    /\ thr' = [thr EXCEPT !.pc[t] = "store", !.tmp[t] = seqN]
    /\ UNCHANGED <<seqN, link, status, dryrun, closed, attrs, locals, obs>>

\* self.seqN += 1: the value loaded, incremented, is stored; the packet is
\* encoded
ThreadStore(t) ==
    /\ thr.pc[t] = "store"
    /\ MayRun(t, FALSE)
    /\ seqN' = advanceSeqN(1, thr.tmp[t])
    /\ acks' = acks + 1
    /\ thr' = [thr EXCEPT !.pc[t] = "write"]
    /\ UNCHANGED <<link, status, dryrun, closed, attrs, locals, call, ret,
                   io, nWrites, nReads, vlog, beat, seq0, opCount>>

\* closeMailboxes: self.dlp_hid.write(pkt), and the call returns
ThreadWrite(t) ==
    /\ thr.pc[t] = "write"
    /\ MayRun(t, FALSE)
    /\ thr' = [thr EXCEPT !.pc[t] = "hardware", !.holder = Holder(t, TRUE),
                          !.sent = Append(@, thr.byte[t])]
    /\ UNCHANGED <<seqN, link, status, dryrun, closed, attrs, locals, obs>>

\* getStatus: self.status['hardware'] = self.getHardwareStatus()
ThreadHardware(t) ==
    /\ thr.pc[t] = "hardware"
    /\ MayRun(t, TRUE)
    /\ \E v \in Device(HardwareBytes) :
           status' = [status EXCEPT !.hardware = v]
    /\ thr' = [thr EXCEPT !.pc[t] = "system", !.holder = Holder(t, FALSE),
                          !.origin.hardware = t]
    /\ UNCHANGED <<seqN, link, dryrun, closed, attrs, locals, obs>>

\* getStatus: self.status['system'] = self.getSystemStatus()
ThreadSystem(t) ==
    /\ thr.pc[t] = "system"
    /\ MayRun(t, FALSE)
    /\ \E v \in Device(SystemBytes) :
           status' = [status EXCEPT !.system = v]
    /\ thr' = [thr EXCEPT !.pc[t] = "main", !.origin.system = t]
    /\ UNCHANGED <<seqN, link, dryrun, closed, attrs, locals, obs>>

\* getStatus: self.status['main'] = self.getMainStatus(), and the call
\* returns
ThreadMain(t) ==
    /\ thr.pc[t] = "main"
    /\ MayRun(t, FALSE)
    /\ \E v \in Device(MainBytes) :
           status' = [status EXCEPT !.main = v]
    /\ thr' = [thr EXCEPT !.pc[t] = "done", !.holder = Holder(t, TRUE),
                          !.origin.main = t]
    /\ UNCHANGED <<seqN, link, dryrun, closed, attrs, locals, obs>>

ThreadNext ==
    \/ Spawn
    \/ \E t \in Threads : ThreadSeqByte(t)
    \/ \E t \in Threads : ThreadLoad(t)
    \/ \E t \in Threads : ThreadStore(t)
    \/ \E t \in Threads : ThreadWrite(t)
    \/ \E t \in Threads : ThreadHardware(t)
    \/ \E t \in Threads : ThreadSystem(t)
    \/ \E t \in Threads : ThreadMain(t)

ThreadSpec == Init /\ [][ThreadNext]_vars

-----------------------------------------------------------------------------
(* The session that connects, polls the status and validates, with its    *)
(* loops running on.                                                       *)

LoopNext ==
    \/ ConnectDLP
    \/ GetStatus
    \/ PollForStatusOK
    \/ PollAttempt
    \/ PollReturn
    \/ StartValidation
    \/ GetValidationData
    \/ ValidateSequence
    \/ ValidatePoll
    \/ ValidateReturn

LoopSpec ==
    /\ Init
    /\ [][LoopNext]_vars
    /\ WF_vars(PollAttempt)
    /\ WF_vars(PollReturn)
    /\ WF_vars(ValidatePoll)
    /\ WF_vars(ValidateReturn)

-----------------------------------------------------------------------------
(* The session that uploads long pattern sequences.                        *)

\* sendPatternSequence called with the sequence of 129 LUT entries
SendLongPatternSequence ==
    \E flashIndexes \in FlashIndexes, displayTime \in ExposureTimes,
       o \in SendOptions :
        LET res == sendPatternSequence(LongSequence, flashIndexes,
                                       displayTime, o[1], o[2], seqN)
        IN  /\ InvokeWith("sendPatternSequence", <<displayTime, o[1], o[2]>>,
                          <<LongSequence, flashIndexes>>, res)
            /\ IF res.ret.kind = "raise"
               THEN UNCHANGED <<exposureTime, framePeriod>>
               ELSE /\ exposureTime' = int2bytesLSB(displayTime)
                    /\ framePeriod' = int2bytesLSB(framePeriodOf(displayTime,
                                                                 0))
            /\ UNCHANGED <<link, status, DisplayMode>>

UploadNext ==
    \/ ConnectDLP
    \/ GetStatus
    \/ StopPatternSequence
    \/ SendPatternSequence
    \/ SendLongPatternSequence
    \/ StartPatternSequence

UploadSpec == Init /\ [][UploadNext]_vars

---------------------------------------------------------------------------
(* Properties.                                                             *)

\* the write events of the last step
Written == Writes(io)
\* the sequence-tracked write events of the last step
TrackedWrites == SelectSeq(io, LAMBDA e : e.dir = "w" /\ e.built.seq # 0)

\* The packet a buildPacket call is to return, given its arguments b and
\* taking the sequence byte from the packet p it did return.
Layout(b, p) ==
    <<0, 128 * b.readonly + 64 * b.reply, p[3], (Len(b.data) + 2) % 256,
      (Len(b.data) + 2) \div 256, b.cmd3, b.cmd2>> \o b.data

\* C1: every packet written is the report id 0, the flags byte
\* (readonly << 7) | (reply << 6), a sequence byte, the payload length plus
\* 2 as two bytes, low byte first, then cmd3, cmd2 and the payload as it was
\* given; so the length field of every packet is its payload length plus 2.
PacketLayout ==
    \A i \in 1..Len(Written) :
        LET e == Written[i] IN
        /\ e.bytes = Layout(e.built, e.bytes)
        /\ e.bytes[3] \in Bytes
        /\ e.bytes[4] + 256 * e.bytes[5] = (Len(e.bytes) - 7) + 2

\* C1 witness: a packet whose length field needs its high byte, and in the
\* same session state a method that wrote it with one write.
PacketLayoutWitness ==
    /\ call.op = "fillPatternData"
    /\ Len(Written) = 1
    /\ Written[1].bytes[5] = 1
    /\ Len(Written[1].bytes) = 7 + LongLen

\* C2: the counter is its starting value plus the number of sequence-tracked
\* packets built, whatever was built in between; the i-th tracked packet of
\* the session carries (seq0 + i) mod 256 (i from 0) and every other packet
\* carries 0.
SequenceNumbers ==
    /\ seqN = seq0 + acks
    /\ \A i \in 1..Len(TrackedWrites) :
           TrackedWrites[i].bytes[3] =
               (seq0 + (acks - Len(TrackedWrites)) + (i - 1)) % 256
    /\ \A i \in 1..Len(Written) :
           Written[i].built.seq = 0 => Written[i].bytes[3] = 0

\* C2 witness: a pattern upload whose twelve tracked packets wrap from 255
\* to 0, made as the second method of a session whose first method built no
\* tracked packet.
SequenceNumbersWitness ==
    /\ call.op = "sendPatternSequence"
    /\ Len(TrackedWrites) = 12
    /\ opCount = 2
    /\ acks = 12
    /\ \E i \in 1..11 : /\ TrackedWrites[i].bytes[3] = 255
                        /\ TrackedWrites[i + 1].bytes[3] = 0

\* Reading a packet back by the wire layout.
Decode(p) ==
    [cmd2 |-> p[7], cmd3 |-> p[6],
     data |-> SubSeq(p, 8, 7 + (p[4] + 256 * p[5]) - 2),
     readonly |-> (p[2] \div 128) % 2, reply |-> (p[2] \div 64) % 2]

\* C3: decoding a written packet gives back the cmd2, cmd3, payload and the
\* two flags it was built from.
RoundTrip ==
    \A i \in 1..Len(Written) :
        LET b == Written[i].built IN
        Decode(Written[i].bytes) =
            [cmd2 |-> b.cmd2, cmd3 |-> b.cmd3, data |-> b.data,
             readonly |-> b.readonly, reply |-> b.reply]

\* C3 witness: a packet with both flags set and one with a payload and both
\* flags clear, each read back.
RoundTripWitness ==
    /\ call.op = "readGPIO"
    /\ Len(Written) = 1
    /\ Decode(Written[1].bytes) =
           [cmd2 |-> 26, cmd3 |-> 56, data |-> <<5>>, readonly |-> 1,
            reply |-> 1]

\* a step that invokes the method op
Invokes(op) == opCount' = opCount + 1 /\ call'.op = op

\* the cmd3 byte and the payload of each packet written by the last step
Commands == [i \in 1..Len(Written) |-> <<Written[i].built.cmd3,
                                         Written[i].built.data>>]

\* the arguments of a sendPatternSequence call have a shape the method is
\* to refuse
BadShape(lists) ==
    \/ Len(lists[1]) = 0
    \/ Len(lists[1]) % 3 # 0
    \/ Len(lists[2]) = 0
    \/ Len(lists[2]) > Len(lists[1]) \div 3

\* C4: a sendPatternSequence call whose sequence length is zero or no
\* multiple of 3, or whose flash index count is 0 or above the LUT entry
\* count, raises SettingsError, makes no transport call and leaves the
\* counter and the status dictionary as they were.
ShapeRejected ==
    [][(Invokes("sendPatternSequence") /\ BadShape(call'.lists))
         => /\ ret' = Raise("SettingsError")
            /\ io' = <<>>
            /\ nWrites' = 0
            /\ nReads' = 0
            /\ seqN' = seqN
            /\ status' = status]_vars

\* C4 witness: a call with 2 LUT entries and 3 flash indexes was refused.
ShapeRejectedWitness ==
    /\ call.op = "sendPatternSequence"
    /\ ret = Raise("SettingsError")
    /\ Len(call.lists[1]) = 6
    /\ Len(call.lists[2]) = 3
    /\ nWrites = 0

\* the twelve commands of an upload of sequence and flashIndexes, as
\* <<cmd3, payload>>, with u the payloads of the commands 2 to 4
UploadOrder(sequence, flashIndexes, u) ==
    <<<<34, <<3>>>>, <<49, u[1]>>, <<41, u[2]>>, <<35, u[3]>>,
      <<51, <<2>>>>, <<50, <<0>>>>, <<52, sequence>>, <<51, <<0>>>>,
      <<51, <<1>>>>, <<50, <<0>>>>, <<52, flashIndexes>>, <<51, <<0>>>>>>

\* C5: a sendPatternSequence call that passes the shape checks writes twelve
\* packets and reads nothing: pattern input source flash, LUT control,
\* exposure and frame period, trigger mode, mailbox open for the pattern
\* definition, LUT offset 0, the pattern bytes, mailbox close, mailbox open
\* for the image indexes, LUT offset 0, the flash indexes, mailbox close.
UploadWritesTwelve ==
    (call.op = "sendPatternSequence" /\ ~BadShape(call.lists))
        => /\ Len(io) = 12
           /\ Len(Written) = 12
           /\ Commands = UploadOrder(call.lists[1], call.lists[2],
                                     <<Commands[2][2], Commands[3][2],
                                       Commands[4][2]>>)

\* C6: a sendPatternSequence call with a well-formed sequence and flash
\* index list and a trigger mode above 4 raises an error and writes nothing.
TriggerModePreempts ==
    (call.op = "sendPatternSequence" /\ ~BadShape(call.lists)
       /\ call.args[2] > 4)
        => ret.kind = "raise" /\ nWrites = 0 /\ io = <<>>

\* C7: setPatternTriggerMode with a mode above 4, setPatternInputSource with
\* a source other than 0 and 3 and openMailbox with a function code other
\* than 1, 2, 3 return -1, write nothing and leave the counter; with any
\* other argument each writes one packet that carries the counter's low
\* byte and the argument as payload, and advances the counter by one.
SettersValidate ==
    [][\A op \in {"setPatternTriggerMode", "setPatternInputSource",
                  "openMailbox"} :
         Invokes(op) =>
           LET a == call'.args[1]
               bad == IF op = "setPatternTriggerMode" THEN a > 4
                      ELSE IF op = "setPatternInputSource" THEN a \notin {0, 3}
                      ELSE a \notin {1, 2, 3}
               w == Writes(io')
           IN  IF bad
               THEN /\ ret' = Return(-1)
                    /\ io' = <<>>
                    /\ nWrites' = 0
                    /\ seqN' = seqN
               ELSE /\ ret' = Return(1)
                    /\ Len(io') = 1
                    /\ Len(w) = 1
                    /\ w[1].built.seq = 1
                    /\ w[1].bytes[3] = seqN % 256
                    /\ SubSeq(w[1].bytes, 8, Len(w[1].bytes)) = <<a>>
                    /\ seqN' = seqN + 1]_vars

\* C7 witness: a refused trigger mode, with nothing written.
SettersValidateWitness ==
    /\ call.op = "setPatternTriggerMode"
    /\ call.args[1] = 5
    /\ ret = Return(-1)
    /\ nWrites = 0

\* the packets of startValidation and of getValidationData
StartValidationPacket == <<0, 0, 0, 3, 0, 26, 26, 0>>
ValidationDataPacket == <<0, 192, 0, 2, 0, 26, 26>>

\* every validation byte read was recorded and every transport call counted
ValidationRecorded == Len(vlog) < MaxPolls /\ nWrites < MaxCount

\* C8: validateSequence first writes the start-validation packet, then
\* requests validation data, one write and one read per request; the bytes
\* read before the last have bit 7 set, the last has it clear and is the
\* value returned, and a value that is not 0 is returned, not raised.
ValidationHandshake ==
    (call.op = "validateSequence" /\ ValidationRecorded)
        => /\ nReads = Len(vlog)
           /\ nWrites = 1 + Len(vlog)
           /\ \A i \in 1..(Len(vlog) - 1) : vlog[i] \div 128 = 1
           /\ (pc = "validate" /\ Len(vlog) = 1)
                 => /\ Len(io) = 3
                    /\ io[1].dir = "w" /\ io[1].bytes = StartValidationPacket
                    /\ io[2].dir = "w" /\ io[2].bytes = ValidationDataPacket
                    /\ io[3].dir = "r" /\ io[3].bytes[5] = vlog[1]
           /\ (pc = "validate" /\ Len(vlog) > 1)
                 => /\ Len(io) = 2
                    /\ io[1].dir = "w" /\ io[1].bytes = ValidationDataPacket
                    /\ io[2].dir = "r" /\ io[2].bytes[5] = vlog[Len(vlog)]
           /\ pc = "validate" => d = vlog[Len(vlog)]
           /\ pc = "idle"
                 => /\ ret = Return(vlog[Len(vlog)])
                    /\ ret.val \div 128 = 0
                    /\ ret.val \in 0..127

\* C8 witness: the device answered 0x81, 0x81, 0x00; three reads were made
\* and 0 was returned.
ValidationHandshakeWitness ==
    /\ call.op = "validateSequence"
    /\ pc = "idle"
    /\ vlog = <<129, 129, 0>>
    /\ nReads = 3
    /\ ret = Return(0)

\* C9: a validateSequence that has been invoked returns.
ValidationTerminates ==
    (call.op = "validateSequence" /\ pc = "validate") ~> (pc = "idle")

\* the number of attempts a pollForStatusOK(n) makes at most
Attempts(n) == IF n > 0 THEN n ELSE 0

\* the status dictionary holds the nominal hardware and system bytes
Nominal == status.hardware = 1 /\ status.system = 1

\* C10: pollForStatusOK(n) makes at most n attempts of three write/read
\* exchanges each; it makes no further attempt after one that found the
\* hardware and system bytes nominal and returns 1 then; it returns 0 after
\* n attempts that all failed, with no attempt and no transport call when
\* n <= 0.
PollBounded ==
    call.op = "pollForStatusOK"
        => /\ k <= Attempts(call.args[1])
           /\ nWrites = 3 * k
           /\ nReads = 3 * k
           /\ k > 0 => (poll_status = 1 <=> Nominal)
           /\ k = 0 => poll_status = 0
           /\ (pc = "poll" /\ poll_status = 1) => ~ENABLED PollAttempt
           /\ (pc = "poll" /\ poll_status = 0 /\ k < call.args[1])
                 => ENABLED PollAttempt /\ ~ENABLED PollReturn
           /\ pc = "idle"
                 => /\ ret = Return(poll_status)
                    /\ ret.val = 1 => (k >= 1 /\ Nominal)
                    /\ ret.val = 0 => k = Attempts(call.args[1])

\* C10 witness: with bound 4 the first three attempts failed and the fourth
\* found the status nominal: 1 was returned after 12 exchanges.
PollBoundedWitness ==
    /\ call.op = "pollForStatusOK"
    /\ call.args = <<4>>
    /\ pc = "idle"
    /\ ret = Return(1)
    /\ k = 4
    /\ nWrites = 12
    /\ nReads = 12

Accepts(c) ==
    /\ c[1] <= 255 /\ c[2] <= 255 /\ c[3] <= 255
    /\ 69 * c[1] + 71 * c[2] + 63 * c[3] + 9611 <= 42000

\* C12: setLEDCurrent(r, g, b) writes one packet (cmd2 0x0B, cmd3 0x01, no
\* flags, no sequence number) with the payload [255-r, 255-g, 255-b] when
\* the LED current guard accepts (r, g, b) and makes no transport call when
\* it rejects; no packet that sets LED currents carries values the guard
\* rejects.
LedCurrentGated ==
    /\ call.op = "setLEDCurrent"
       => IF Accepts(call.args)
          THEN /\ Len(io) = 1
               /\ io[1].dir = "w"
               /\ io[1].bytes = <<0, 0, 0, 5, 0, 1, 11, 255 - call.args[1],
                                  255 - call.args[2], 255 - call.args[3]>>
          ELSE io = <<>>
    /\ \A i \in 1..Len(Written) :
           LET p == Written[i].bytes IN
           (p[6] = 1 /\ p[7] = 11 /\ Len(p) > 7)
           => /\ Len(p) = 10
              /\ Accepts(<<255 - p[8], 255 - p[9], 255 - p[10]>>)

\* setLEDCurrent has been called with a request the guard rejects
LedCurrentGatedWitness ==
    /\ call.op = "setLEDCurrent"
    /\ call.args = <<171, 109, 204>>
    /\ nWrites = 0
    /\ ret.kind = "return"

\* C13: when the LED current guard rejects the request, the outcome of
\* setLEDCurrent differs from the outcome of a successful set (which is the
\* value 1).
LedRejectionReported ==
    (call.op = "setLEDCurrent" /\ ~Accepts(call.args)) => ret # Return(1)

\* C14: getImageLoadTiming returns, without raising, the three data bytes
\* of the response read as a little-endian number, divided by 18667.
ImageLoadTimingDecodes ==
    call.op = "getImageLoadTiming"
    => LET b == io[2].bytes IN
       ret = Return((b[5] + 256 * b[6] + 65536 * b[7]) \div 18667)

\* C15: after getHardwareStatus, getSystemStatus, getMainStatus,
\* getInputSource or getDisplayMode has returned v, the field of the status
\* snapshot that belongs to the query equals v.
QueriesRefreshSnapshot ==
    ret.kind = "return"
    => /\ call.op = "getHardwareStatus" => status.hardware = ret.val
       /\ call.op = "getSystemStatus" => status.system = ret.val
       /\ call.op = "getMainStatus" => status.main = ret.val
       /\ call.op = "getInputSource"
          => status.inputsource = ret.val /\ ret.val \in 0..3
       /\ call.op = "getDisplayMode" => status.displaymode = ret.val

\* the writes and reads of the last step
Traffic == SelectSeq(io, LAMBDA e : e.dir \in {"w", "r"})
\* the reply-expected bit (bit 6 of the flags byte) of a written packet
ReplyExpected(e) == (e.bytes[2] \div 64) % 2 = 1

\* C16: a write of a packet whose reply-expected bit is set is followed by
\* one read and then, if anything, by a write; a write of a packet whose
\* reply-expected bit is clear is followed, if by anything, by a write;
\* every read follows a write of a reply-expected packet.  Every step
\* starts with a write and ends with a completed exchange, so this holds of
\* the transport calls of the whole session.
SingleOutstanding ==
    \A i \in 1..Len(Traffic) :
        LET e == Traffic[i] IN
        /\ (e.dir = "w" /\ ReplyExpected(e))
           => /\ i < Len(Traffic)
              /\ Traffic[i + 1].dir = "r"
        /\ (e.dir = "w" /\ ~ReplyExpected(e))
           => (i = Len(Traffic) \/ Traffic[i + 1].dir = "w")
        /\ e.dir = "r"
           => /\ i > 1
              /\ Traffic[i - 1].dir = "w"
              /\ ReplyExpected(Traffic[i - 1])

\* validateSequence has written a packet without reply, then a packet with
\* reply expected, and has read its response
SingleOutstandingWitness ==
    /\ call.op = "validateSequence"
    /\ Len(Traffic) = 3
    /\ ~ReplyExpected(Traffic[1])
    /\ ReplyExpected(Traffic[2])
    /\ Traffic[3].dir = "r"

\* C17: a transport call that fails (open, write or read) is the last
\* transport call of its operation, and the operation ends by raising the
\* transport's error.
TransportFailurePropagates ==
    \A i \in 1..Len(io) :
        io[i].failed = 1 => (i = Len(io) /\ ret = Raise("IOError"))

\* the four bytes of x, low byte first
LittleEndian4(x) ==
    <<x % 256, (x \div 256) % 256, (x \div 65536) % 256,
      (x \div 16777216) % 256>>

\* the twelve commands of the upload that the arguments of the call c ask for
UploadOf(c) ==
    LET entries == Len(c.lists[1]) \div 3 IN
    UploadOrder(c.lists[1], c.lists[2],
                <<<<entries - 1, c.args[3], entries - 1,
                    Len(c.lists[2]) - 1>>,
                  LittleEndian4(c.args[1]) \o LittleEndian4(c.args[1]),
                  <<c.args[2]>>>>)

\* the cmd3 byte and the payload of each packet the last step delivered
Delivered ==
    LET done == SelectSeq(io, LAMBDA e : e.dir = "w" /\ e.failed = 0)
    IN  [i \in 1..Len(done) |-> <<done[i].built.cmd3, done[i].built.data>>]

\* C18: when the k-th write of a pattern sequence upload fails, the upload
\* ends with that error, the packets delivered are the first k-1 commands
\* of the upload order, and nothing is written after the failing write.
UploadAbortsAtFailure ==
    (call.op = "sendPatternSequence" /\ ret = Raise("IOError"))
    => LET n == Len(io) IN
       /\ n \in 1..12
       /\ io[n].failed = 1
       /\ Delivered = SubSeq(UploadOf(call), 1, n - 1)

\* C20: once connectDLP has called the transport's open, the transport's
\* close is eventually called; and the connected flag is 1 exactly when an
\* open has succeeded.
TransportReleased ==
    /\ (opened # "no") ~> (closed = 1)
    /\ [](connected = 1 <=> opened = "yes")

\* C19 (with the lock): when every call is made under one lock, the
\* sequence-tracked packets written one after the other carry consecutive
\* sequence numbers mod 256, the counter has advanced by the number of
\* packets encoded, and between calls the three status bytes of the
\* snapshot come from one getStatus.  Without the lock none of this holds:
\* see the witness.
LockedCallsSafe ==
    thr.locked
    => /\ \A i \in 1..(Len(thr.sent) - 1) :
              thr.sent[i + 1] = (thr.sent[i] + 1) % 256
       /\ seqN = seq0 + acks
       /\ thr.holder = 0
          => /\ thr.origin.hardware = thr.origin.system
             /\ thr.origin.system = thr.origin.main

\* C19 (without the lock): both threads have finished; the two packets
\* carry the same sequence number, the counter has advanced by less than
\* the number of packets encoded, and the snapshot holds a hardware byte
\* from one getStatus and system and main bytes from the other
LockedCallsSafeWitness ==
    /\ ~thr.locked
    /\ thr.pc = <<"done", "done">>
    /\ Len(thr.sent) = 2
    /\ thr.sent[1] = thr.sent[2]
    /\ seqN < seq0 + acks
    /\ thr.origin.hardware # thr.origin.system

-----------------------------------------------------------------------------
(* Field widths.                                                           *)

\* C21: every element of every packet handed to the transport is a byte
\* (0..255), whatever integer the caller passed; the flags byte has no bit
\* set other than bits 7 and 6; the length field is two bytes.
PacketsAreBytes ==
    \A i \in 1..Len(Written) :
        LET p == Written[i].bytes IN
        /\ \A j \in 1..Len(p) : p[j] \in 0..255
        /\ p[2] \in {0, 64, 128, 192}
        /\ Len(p) = 7 + Len(Written[i].built.data)

-----------------------------------------------------------------------------
(* The sequence counter, operation by operation.                           *)

\* the operations whose packet carries a sequence number
TrackedOps ==
    {"setPatternTriggerMode", "setTriggerOut1Control",
     "setPatternInputSource", "setPatternExposureTime", "LUTControl",
     "setLUTOffsetPointer", "openMailbox", "closeMailboxes",
     "setFlashImageIndexes", "fillPatternData"}

\* C22: a successful call of one of the ten sequence-tracked setters writes
\* one packet that carries the counter's value before the call, mod 256, and
\* advances the counter by exactly 1; a step of any other operation (the
\* upload, which is made of such setters, aside) writes packets with
\* sequence byte 0 only and leaves the counter as it was.
CounterDiscipline ==
    [][/\ \A op \in TrackedOps :
              Invokes(op) /\ ret' = Return(1)
              => /\ seqN' = seqN + 1
                 /\ Len(Writes(io')) = 1
                 /\ Writes(io')[1].bytes[3] = seqN % 256
       /\ call'.op \notin TrackedOps \cup {"sendPatternSequence"}
          => /\ seqN' = seqN
             /\ \A i \in 1..Len(Writes(io')) : Writes(io')[i].bytes[3] = 0
      ]_vars

\* C22: a tracked setter called after the counter has passed 255 (an upload
\* from 250 came first): its packet carries the counter mod 256
CounterDisciplineWitness ==
    /\ call.op = "fillPatternData"
    /\ ret = Return(1)
    /\ seqN > 257
    /\ Written[1].bytes[3] = (seqN - 1) % 256

-----------------------------------------------------------------------------
(* The status snapshot, operation by operation.                            *)

\* the first data byte and the next two of the i-th read of the step taken
Fresh(i, j) == Reads(io')[i].bytes[4 + j]

\* the fields of the snapshot that the step taken has changed
Changed == {f \in DOMAIN status : status'[f] # status[f]}

\* C23: a step that changes the status snapshot is a getStatus (alone or as
\* an attempt of pollForStatusOK), a getInputSource, a getDisplayMode or a
\* getLEDCurrent; it changes no field but its own, and what it stores is
\* what it has just read from the device.  So no other operation changes a
\* field, and no field goes back to its initial value unless the device
\* said so.
SnapshotFrame ==
    [][Changed # {}
       => \/ /\ call'.op \in {"getStatus", "pollForStatusOK"}
             /\ Changed \subseteq {"hardware", "system", "main"}
             /\ status'.hardware = Fresh(1, 1)
             /\ status'.system = Fresh(2, 1)
             /\ status'.main = Fresh(3, 1)
          \/ /\ call'.op = "getInputSource"
             /\ Changed = {"inputsource"}
             /\ status'.inputsource = Fresh(1, 1) % 4
          \/ /\ call'.op = "getDisplayMode"
             /\ Changed = {"displaymode"}
             /\ status'.displaymode = Fresh(1, 1)
          \/ /\ call'.op = "getLEDCurrent"
             /\ Changed \subseteq {"ledRed", "ledGreen", "ledBlue"}
             /\ status'.ledRed = 255 - Fresh(1, 1)
             /\ status'.ledGreen = 255 - Fresh(1, 2)
             /\ status'.ledBlue = 255 - Fresh(1, 3)
      ]_vars

\* C23: a software reset, which is no query, has come after a getStatus
\* that stored nominal bytes, and the bytes are still there
SnapshotFrameWitness ==
    /\ call.op = "softwareReset"
    /\ status.hardware = 1
    /\ status.system = 1

-----------------------------------------------------------------------------
(* The upload's LUT control packet.                                        *)

\* the payloads of the LUT control packets (cmd3 0x31) written by the last
\* step
LutControlPayloads ==
    LET w == SelectSeq(Written, LAMBDA e : e.built.cmd3 = 49)
    IN  [i \in 1..Len(w) |-> SubSeq(w[i].bytes, 8, Len(w[i].bytes))]

\* C24: an upload of n = Len(sequence) / 3 LUT entries and f flash indexes
\* that passes the shape checks writes one LUT control packet, whose payload
\* is the four bytes n - 1, repeat, n - 1, f - 1.
LutControlCounts ==
    (call.op = "sendPatternSequence" /\ ret = ReturnNone)
    => LET n == Len(call.lists[1]) \div 3
           f == Len(call.lists[2])
       IN  LutControlPayloads = <<<<n - 1, call.args[3], n - 1, f - 1>>>>

-----------------------------------------------------------------------------
(* Exposure time and frame period.                                         *)

\* the payloads of the exposure packets (cmd2 0x1A, cmd3 0x29) written by
\* the last step
ExposurePayloads ==
    LET w == SelectSeq(Written,
                       LAMBDA e : e.bytes[6] = 41 /\ e.bytes[7] = 26)
    IN  [i \in 1..Len(w) |-> SubSeq(w[i].bytes, 8, Len(w[i].bytes))]

\* C25: setPatternExposureTime(e, longer) writes one packet, which carries
\* the sequence number and whose payload is the eight bytes of e and of the
\* frame period, each as a 32-bit little-endian number; the frame period is
\* e + 230 when longer is 1, else e.  The exposure packet of an upload
\* carries the display time twice.
ExposurePayload ==
    /\ call.op = "setPatternExposureTime"
       => LET e == call.args[1]
              frame == IF call.args[2] = 1 THEN e + 230 ELSE e
          IN  /\ Len(Written) = 1
              /\ Written[1].bytes[2] = 0
              /\ Written[1].bytes[3] = (seqN - 1) % 256
              /\ ExposurePayloads
                     = <<LittleEndian4(e) \o LittleEndian4(frame)>>
    /\ (call.op = "sendPatternSequence" /\ ret = ReturnNone)
       => ExposurePayloads
              = <<LittleEndian4(call.args[1]) \o LittleEndian4(call.args[1])>>

\* C25: an exposure of 0x010203F0 us with the longer frame period, which is
\* 0x010204D6 us
ExposurePayloadWitness ==
    /\ call.op = "setPatternExposureTime"
    /\ call.args = <<16909296, 1>>
    /\ ExposurePayloads = <<<<240, 3, 2, 1, 214, 4, 2, 1>>>>

-----------------------------------------------------------------------------
(* getStatus.                                                              *)

\* C26: a getStatus call is three exchanges, each a write followed by one
\* read, asking for the hardware status (cmd3 0x0A), the system status
\* (0x0B) and the main status (0x0C) in this order; the three bytes read are
\* in the snapshot afterwards; the call returns, and never raises, 1 when
\* the hardware byte and the system byte both equal 1 and 0 otherwise,
\* whatever the main status byte is.
StatusContract ==
    call.op = "getStatus"
    => /\ [i \in 1..Len(io) |-> io[i].dir] = <<"w", "r", "w", "r", "w", "r">>
       /\ [i \in 1..Len(Written) |-> <<Written[i].bytes[7],
                                       Written[i].bytes[6]>>]
              = <<<<26, 10>>, <<26, 11>>, <<26, 12>>>>
       /\ status.hardware = io[2].bytes[5]
       /\ status.system = io[4].bytes[5]
       /\ status.main = io[6].bytes[5]
       /\ ret = Return(IF io[2].bytes[5] = 1 /\ io[4].bytes[5] = 1
                       THEN 1 ELSE 0)

\* C26: the hardware byte has bit 0 set but is not 1: getStatus returns 0
StatusContractWitness ==
    /\ call.op = "getStatus"
    /\ status.hardware = 3
    /\ status.system = 1
    /\ ret = Return(0)

-----------------------------------------------------------------------------
(* Mailboxes.                                                              *)

\* the payload of a written packet, from its bytes
Payload(e) == SubSeq(e.bytes, 8, Len(e.bytes))

\* The packets w[i], w[i+1], ... read one after the other by a device whose
\* open mailbox is open (0: none, else the function it was opened with) and
\* whose LUT offset was (reset) or was not set to 0 since the mailbox was
\* opened: the mailbox open after the last packet, or -1 when a mailbox is
\* opened while one is open, or when LUT data (cmd3 0x34) arrive with no
\* mailbox open, before the offset was reset, or under the wrong mailbox
\* (pattern bytes belong to function 2, flash indexes to function 1).
RECURSIVE MailboxAfter(_, _, _, _, _)
MailboxAfter(w, i, open, reset, lists) ==
    IF i > Len(w) THEN open
    ELSE LET cmd3 == w[i].bytes[6]
             data == Payload(w[i])
         IN  IF cmd3 = 51 /\ data = <<0>>
             THEN MailboxAfter(w, i + 1, 0, FALSE, lists)
             ELSE IF cmd3 = 51
             THEN IF open # 0 THEN -1
                  ELSE MailboxAfter(w, i + 1, data[1], FALSE, lists)
             ELSE IF cmd3 = 50
             THEN MailboxAfter(w, i + 1, open, open # 0 /\ data = <<0>>,
                               lists)
             ELSE IF cmd3 = 52
             THEN IF /\ reset
                     /\ \/ open = 2 /\ data = lists[1]
                        \/ open = 1 /\ data = lists[2]
                  THEN MailboxAfter(w, i + 1, open, reset, lists)
                  ELSE -1
             ELSE MailboxAfter(w, i + 1, open, reset, lists)

\* C27: the packets of an upload open at most one mailbox at a time, write
\* LUT data only into an open mailbox whose LUT offset was reset to 0 since
\* it was opened, the pattern bytes under function 2 and the flash indexes
\* under function 1, and close each mailbox before the next is opened; an
\* upload that returns leaves no mailbox open.
MailboxDiscipline ==
    call.op = "sendPatternSequence"
    => LET after == MailboxAfter(Written, 1, 0, FALSE, call.lists) IN
       /\ after # -1
       /\ ret = ReturnNone => after = 0

\* C27: an upload has returned; it opened the pattern mailbox, closed it,
\* opened the image-index mailbox and closed it, and wrote LUT data twice
MailboxDisciplineWitness ==
    /\ call.op = "sendPatternSequence"
    /\ ret = ReturnNone
    /\ LET m == SelectSeq(Written, LAMBDA e : e.bytes[6] = 51)
       IN  [i \in 1..Len(m) |-> Payload(m[i])]
               = <<<<2>>, <<0>>, <<1>>, <<0>>>>
    /\ Len(SelectSeq(Written, LAMBDA e : e.bytes[6] = 52)) = 2

-----------------------------------------------------------------------------
(* LED currents, set and read back.                                        *)

\* the step taken is a getLEDCurrent right after a setLEDCurrent(r, g, b)
\* that the guard accepted, and the device answers with the three bytes
\* that setLEDCurrent wrote
ReadsBackLed ==
    /\ call.op = "setLEDCurrent"
    /\ \A j \in 1..3 : call.args[j] \in 0..255
    /\ Accepts(call.args)
    /\ Len(Written) = 1
    /\ Invokes("getLEDCurrent")
    /\ SubSeq(Reads(io')[1].bytes, 5, 7) = Payload(Written[1])

\* C28: when getLEDCurrent reads back the bytes written by an accepted
\* setLEDCurrent(r, g, b), the snapshot holds ledRed = r, ledGreen = g and
\* ledBlue = b afterwards, each in 0..255, and the call returns a value for
\* each of the three channels.
LedRoundTrip ==
    [][ReadsBackLed
       => /\ status'.ledRed = call.args[1]
          /\ status'.ledGreen = call.args[2]
          /\ status'.ledBlue = call.args[3]
          /\ \A f \in {"ledRed", "ledGreen", "ledBlue"} :
                 status'[f] \in 0..255
          /\ ret'.kind = "list"
          /\ Len(ret'.list) = 3
      ]_vars

-----------------------------------------------------------------------------
(* The dry-run session.                                                    *)

\* C29: on a dry-run session connectDLP returns 1 and sets connected;
\* validateSequence reads the validation data once and returns 0;
\* pollForStatusOK(n) makes n attempts (none for n < 0) and returns 0; and
\* every operation that has been called returns.
DryRunTerminates ==
    /\ [](dryrun = 1
          => /\ call.op = "connectDLP" => ret = Return(1) /\ connected = 1
             /\ (call.op = "validateSequence" /\ pc = "idle")
                => ret = Return(0) /\ vlog = <<0>>
             /\ (call.op = "pollForStatusOK" /\ pc = "idle")
                => /\ ret = Return(0)
                   /\ k = Attempts(timeout)
                   /\ Nominal = FALSE)
    /\ (dryrun = 1 /\ pc # "idle") ~> (pc = "idle" /\ ret # Running)

\* C29: pollForStatusOK(4) has returned 0 on a dry-run session after four
\* attempts
DryRunTerminatesWitness ==
    /\ dryrun = 1
    /\ call.op = "pollForStatusOK"
    /\ pc = "idle"
    /\ timeout = 4
    /\ k = 4
    /\ ret = Return(0)

====
